---------------------------- MODULE Spec2Model ----------------------------
(***************************************************************************)
(* Model of the repository listing page's client-side filter controllers.  *)
(*                                                                         *)
(*   extended controller : text search + language filter buttons           *)
(*   simple controller   : site/search.js, text search only                *)
(*                                                                         *)
(* A string is a sequence of one-character strings, so that toLowerCase,   *)
(* trim, template concatenation and String.includes are computed the way   *)
(* the scripts compute them.  Both controllers are run on their own copy   *)
(* of the same page and receive the same text-input events.                *)
(***************************************************************************)
EXTENDS Naturals, Sequences, FiniteSets

(***************************************************************************)
(* Bounds of the model.                                                    *)
(***************************************************************************)
\* largest number of repository cards on a page
MaxCards == 2
\* longest raw value typed into the search box
MaxQueryLen == 2

(***************************************************************************)
(* Strings.                                                                *)
(***************************************************************************)
Unknown == <<"u", "n", "k", "n", "o", "w", "n">>

\* String.prototype.toLowerCase on one character
LowerChar(c) ==
  CASE c = "G" -> "g"
    [] c = "A" -> "a"
    [] c = "U" -> "u"
    [] OTHER -> c

toLowerCase(s) == [i \in 1..Len(s) |-> LowerChar(s[i])]

\* String.prototype.trim: strips the white space at both ends
trim(s) ==
  LET solid == {i \in 1..Len(s) : s[i] # " "}
      first == CHOOSE i \in solid : \A j \in solid : i <= j
      last == CHOOSE i \in solid : \A j \in solid : j <= i
  IN IF solid = {} THEN <<>> ELSE SubSeq(s, first, last)

\* String.prototype.includes
includes(text, q) ==
  \E i \in 0..Len(text) :
     /\ i + Len(q) <= Len(text)
     /\ SubSeq(text, i + 1, i + Len(q)) = q

\* the JavaScript expression (s || d) on strings: an absent attribute and an
\* empty one are both falsy
OrElse(s, d) == IF s = <<>> THEN d ELSE s

(***************************************************************************)
(* The page: the cards, sections and filter buttons the scripts find.      *)
(***************************************************************************)
\* the characters that can be typed into the search box
QueryAlphabet == {"G", " "}

Values == UNION {[1..n -> QueryAlphabet] : n \in 0..MaxQueryLen}

\* values the browser may have left in the box when the script starts
InitialValues == {<<>>, <<"G">>}

\* the repository cards a page is made of; section 0 is "in no section".
\* Every .repo-card element of the page carries data-repo-name, so the
\* sections' selector ".repo-card:not([hidden])" and the cards collection
\* range over the same elements.  An absent data attribute is <<>>.
CardPool ==
  { [repoName |-> <<"a">>, repoLanguage |-> <<"G">>,
     repoDescription |-> <<>>, section |-> 1],
    [repoName |-> <<"G", "g">>, repoLanguage |-> <<>>,
     repoDescription |-> <<"a">>, section |-> 0],
    [repoName |-> <<"A">>,
     repoLanguage |-> <<"U", "n", "k", "n", "o", "w", "n">>,
     repoDescription |-> <<>>, section |-> 2] }

Pages == UNION {[1..n -> CardPool] : n \in 0..MaxCards}

\* document.querySelectorAll(".repo-section")
sections == {1, 2}

\* data-language of the filter buttons, in document order; "" is "all"
filterLanguage == << <<>>, <<"g">>, <<"G">>, Unknown >>

ButtonIds == DOMAIN filterLanguage

\* the optional elements a page may or may not carry; hasInput says whether
\* #repo-search is an HTMLInputElement, filters which buttons exist
Layouts ==
  { [hasInput |-> TRUE, filters |-> ButtonIds,
     hasEmptyState |-> TRUE, hasCountLabels |-> TRUE],
    [hasInput |-> TRUE, filters |-> {b \in ButtonIds : filterLanguage[b] # <<>>},
     hasEmptyState |-> TRUE, hasCountLabels |-> TRUE],
    [hasInput |-> TRUE, filters |-> {},
     hasEmptyState |-> TRUE, hasCountLabels |-> FALSE],
    [hasInput |-> TRUE, filters |-> {},
     hasEmptyState |-> FALSE, hasCountLabels |-> FALSE],
    [hasInput |-> FALSE, filters |-> ButtonIds,
     hasEmptyState |-> TRUE, hasCountLabels |-> TRUE] }

\* text of a count label the scripts have not written yet
PageText == <<>>

VARIABLES
  cards,                 \* the card elements' data attributes (fixed)
  layout,                \* which optional elements the page has (fixed)
  pc,                    \* "load" before the scripts run, "ready" after;
                         \* "once"/"twice" count availability passes,
                         \* "between" is between the clicks of a pair
  value,                 \* searchInput.value
  ariaPressed,           \* aria-pressed of each filter button
  buttonHidden,          \* hidden flag of each filter button
  cardHidden,            \* hidden flag of each card
  sectionHidden,         \* hidden flag of each section
  emptyStateHidden,      \* hidden flag of #search-empty
  totalCountText,        \* text of #repo-total-count
  sectionCountText,      \* text of each section's .section-count
  simpleCardHidden,      \* site/search.js: hidden flag of each card
  simpleSectionHidden,   \* site/search.js: hidden flag of each section
  simpleEmptyStateHidden,\* site/search.js: hidden flag of #search-empty
  lastEvent              \* the event delivered last

vars == <<cards, layout, pc, value, ariaPressed, buttonHidden, cardHidden,
          sectionHidden, emptyStateHidden, totalCountText, sectionCountText,
          simpleCardHidden, simpleSectionHidden, simpleEmptyStateHidden,
          lastEvent>>

CardIds == DOMAIN cards

totalCount == Len(cards)

languageFilters == layout.filters

(***************************************************************************)
(* Extended controller: helpers.                                           *)
(***************************************************************************)
\* a searchable text that leaves the language out
searchableTextNoLanguage(card) ==
  toLowerCase(OrElse(card.repoName, <<>>) \o <<" ">>
              \o OrElse(card.repoDescription, <<>>))

\* the card's text the query is searched in
searchableText(card) ==
  toLowerCase(OrElse(card.repoName, <<>>) \o <<" ">>
              \o OrElse(card.repoLanguage, <<>>) \o <<" ">>
              \o OrElse(card.repoDescription, <<>>))

\* the data-language values of the pressed buttons that have one
selectedLanguages(pressed) ==
  { OrElse(filterLanguage[b], <<>>) :
      b \in {f \in languageFilters : filterLanguage[f] # <<>> /\ pressed[f]} }

setButtonPressed(pressed, button, isPressed) ==
  [pressed EXCEPT ![button] = isPressed]

\* languageFilters.find(button => (button.dataset.language || "") === "")
allButtons == {b \in languageFilters : OrElse(filterLanguage[b], <<>>) = <<>>}

allButton == CHOOSE b \in allButtons : \A o \in allButtons : b <= o

\* the lowercased languages of the cards, "unknown" for a card with none
availableLanguages ==
  {toLowerCase(OrElse(cards[c].repoLanguage, Unknown)) : c \in CardIds}

isAvailable(button) == toLowerCase(filterLanguage[button]) \in availableLanguages

\* an availability pass without the special case for the "all" button
applyLanguageAvailabilityNoAllCase(pressed, hidden) ==
  LET looped == [b \in ButtonIds |->
                   IF b \in languageFilters /\ ~isAvailable(b)
                   THEN FALSE ELSE pressed[b]]
      newHidden == [b \in ButtonIds |->
                      IF b \notin languageFilters THEN hidden[b]
                      ELSE ~isAvailable(b)]
  IN [hidden |-> newHidden,
      pressed |-> IF allButtons # {} /\ selectedLanguages(looped) = {}
                  THEN setButtonPressed(looped, allButton, TRUE)
                  ELSE looped]

\* applyLanguageAvailability: the hidden and pressed flags it leaves
applyLanguageAvailability(pressed, hidden) ==
  LET specific == {b \in languageFilters : toLowerCase(filterLanguage[b]) # <<>>}
      looped == [b \in ButtonIds |->
                   IF b \in specific /\ ~isAvailable(b) THEN FALSE ELSE pressed[b]]
      newHidden == [b \in ButtonIds |->
                      IF b \notin languageFilters THEN hidden[b]
                      ELSE IF b \in specific THEN ~isAvailable(b)
                      ELSE FALSE]
  IN [hidden |-> newHidden,
      pressed |-> IF allButtons # {} /\ selectedLanguages(looped) = {}
                  THEN setButtonPressed(looped, allButton, TRUE)
                  ELSE looped]

(***************************************************************************)
(* Extended controller: applyFilter.                                       *)
(***************************************************************************)
\* searchInput.value.trim().toLowerCase()
trimmedLowercased(v) == toLowerCase(trim(v))

\* the pure string functions are tabulated once over the values and cards of
\* the model; the tables hold what the operators above compute
queryTable == [v \in Values \cup InitialValues |-> trimmedLowercased(v)]

query(v) == queryTable[v]

Queries == {query(v) : v \in Values \cup InitialValues}

includesTable ==
  [card \in CardPool |-> {q \in Queries : includes(searchableText(card), q)}]

cardLanguageTable ==
  [card \in CardPool |-> toLowerCase(OrElse(card.repoLanguage, Unknown))]

\* a card language without the "unknown" default
cardLanguageNoDefault(card) == toLowerCase(card.repoLanguage)

cardLanguage(card) == cardLanguageTable[card]

queryMatches(card, q) == q = <<>> \/ q \in includesTable[card]

languageMatches(card, activeLanguages) ==
  activeLanguages = {} \/ cardLanguage(card) \in activeLanguages

isVisible(card, q, activeLanguages) ==
  queryMatches(card, q) /\ languageMatches(card, activeLanguages)

isFiltering(q, activeLanguages) == q # <<>> \/ activeLanguages # {}

\* the per-card loop: the hidden flag of every card
filterCards(q, activeLanguages) ==
  [c \in CardIds |-> ~isVisible(cards[c], q, activeLanguages)]

\* section.querySelectorAll(".repo-card:not([hidden])") for given card flags
visibleCardsIn(section, hidden) ==
  {c \in CardIds : cards[c].section = section /\ ~hidden[c]}

\* a counter that is incremented for every card, shown or not
visibleCardsCountingAll(hidden) == Cardinality(CardIds)

visibleCards(hidden) == Cardinality({c \in CardIds : ~hidden[c]})

\* a section loop without the "not filtering" case
filterSectionsAlwaysCounting(filtering, hidden) ==
  [s \in sections |-> visibleCardsIn(s, hidden) = {}]

\* the per-section loop: the hidden flag of every section
filterSections(filtering, hidden) ==
  [s \in sections |->
     IF ~filtering THEN FALSE ELSE visibleCardsIn(s, hidden) = {}]

\* an empty-state flag that forgets whether a filter is active
filterEmptyStateIgnoringFilter(filtering, hidden) == visibleCards(hidden) > 0

filterEmptyState(filtering, hidden) == ~filtering \/ visibleCards(hidden) > 0

\* data-total of a section's count label, as rendered with the page
sectionTotal(section) == Cardinality({c \in CardIds : cards[c].section = section})

\* an applyFilter whose section loop runs before the card loop, on the
\* hidden flags the cards had when the pass began
applyFilterSectionsFirst(v, pressed) ==
  LET q == query(v)
      activeLanguages == selectedLanguages(pressed)
      filtering == isFiltering(q, activeLanguages)
      hidden == filterCards(q, activeLanguages)
  IN [cardHidden |-> hidden,
      sectionHidden |-> filterSections(filtering, cardHidden),
      emptyStateHidden |->
        IF layout.hasEmptyState THEN filterEmptyState(filtering, hidden)
        ELSE emptyStateHidden,
      totalCountText |->
        IF layout.hasCountLabels THEN <<visibleCards(hidden), totalCount>>
        ELSE totalCountText,
      sectionCountText |->
        IF layout.hasCountLabels
        THEN [s \in sections |->
                <<Cardinality(visibleCardsIn(s, cardHidden)), sectionTotal(s)>>]
        ELSE sectionCountText]

\* one run of applyFilter: everything it writes
applyFilter(v, pressed) ==
  LET q == query(v)
      activeLanguages == selectedLanguages(pressed)
      filtering == isFiltering(q, activeLanguages)
      hidden == filterCards(q, activeLanguages)
  IN [cardHidden |-> hidden,
      sectionHidden |-> filterSections(filtering, hidden),
      emptyStateHidden |->
        IF layout.hasEmptyState THEN filterEmptyState(filtering, hidden)
        ELSE emptyStateHidden,
      totalCountText |->
        IF layout.hasCountLabels THEN <<visibleCards(hidden), totalCount>>
        ELSE totalCountText,
      sectionCountText |->
        IF layout.hasCountLabels
        THEN [s \in sections |->
                <<Cardinality(visibleCardsIn(s, hidden)), sectionTotal(s)>>]
        ELSE sectionCountText]

(***************************************************************************)
(* Simple controller (site/search.js).                                     *)
(***************************************************************************)
\* a searchable text that leaves the language out
simpleSearchableTextNoLanguage(card) ==
  toLowerCase(OrElse(card.repoName, <<>>) \o <<" ">>
              \o OrElse(card.repoDescription, <<>>))

simpleSearchableText(card) ==
  toLowerCase(OrElse(card.repoName, <<>>) \o <<" ">>
              \o OrElse(card.repoLanguage, <<>>) \o <<" ">>
              \o OrElse(card.repoDescription, <<>>))

simpleIncludesTable ==
  [card \in CardPool |-> {q \in Queries : includes(simpleSearchableText(card), q)}]

simpleIsVisible(card, q) == q = <<>> \/ q \in simpleIncludesTable[card]

simpleApplyFilter(v) ==
  LET q == query(v)
      hidden == [c \in CardIds |-> ~simpleIsVisible(cards[c], q)]
  IN [cardHidden |-> hidden,
      sectionHidden |->
        [s \in sections |->
           IF q = <<>> THEN FALSE ELSE visibleCardsIn(s, hidden) = {}],
      emptyStateHidden |->
        IF layout.hasEmptyState
        THEN q = <<>> \/ visibleCards(hidden) > 0
        ELSE simpleEmptyStateHidden]

(***************************************************************************)
(* The state machine.                                                      *)
(***************************************************************************)
NoEvent == [kind |-> "load", button |-> 0, again |-> FALSE]

\* the record of an event being delivered; again says that it is an input
\* event that follows an input event and brings the value the box already
\* held (the filter pass runs a second time on the same inputs); in
\* SpecDoubleClick it also marks the second of two clicks on one button
Event(kind, button, same) ==
  [kind |-> kind, button |-> button,
   again |-> kind = "input" /\ lastEvent.kind = "input" /\ same]

\* the page as the browser hands it to the scripts
Init ==
  /\ cards \in Pages
  /\ layout \in Layouts
  /\ pc = "load"
  /\ value \in InitialValues
  /\ ariaPressed \in {p \in [ButtonIds -> BOOLEAN] :
                        \A b \in ButtonIds \ layout.filters : ~p[b]}
  /\ \E h \in BOOLEAN :
       /\ buttonHidden = [b \in ButtonIds |-> h]
       /\ cardHidden = [c \in DOMAIN cards |-> h]
       /\ sectionHidden = [s \in sections |-> h]
       /\ emptyStateHidden = h
       /\ simpleCardHidden = [c \in DOMAIN cards |-> h]
       /\ simpleSectionHidden = [s \in sections |-> h]
       /\ simpleEmptyStateHidden = h
  /\ totalCountText = PageText
  /\ sectionCountText = [s \in sections |-> PageText]
  /\ lastEvent = NoEvent

\* the extended controller writes what one run of applyFilter computes
RunApplyFilter(v, pressed) ==
  \E f \in {applyFilter(v, pressed)} :
     /\ cardHidden' = f.cardHidden
     /\ sectionHidden' = f.sectionHidden
     /\ emptyStateHidden' = f.emptyStateHidden
     /\ totalCountText' = f.totalCountText
     /\ sectionCountText' = f.sectionCountText

\* the simple controller writes what one run of its applyFilter computes
RunSimpleApplyFilter(v) ==
  \E f \in {simpleApplyFilter(v)} :
     /\ simpleCardHidden' = f.cardHidden
     /\ simpleSectionHidden' = f.sectionHidden
     /\ simpleEmptyStateHidden' = f.emptyStateHidden

\* a startup without the guard on #repo-search
StartupUnguarded ==
  /\ pc = "load"
  /\ pc' = "ready"
  /\ lastEvent' = Event("startup", 0, TRUE)
  /\ UNCHANGED <<cards, layout, value>>
  /\ \E a \in {applyLanguageAvailability(ariaPressed, buttonHidden)} :
        /\ ariaPressed' = a.pressed
        /\ buttonHidden' = a.hidden
        /\ RunApplyFilter(value, a.pressed)
        /\ RunSimpleApplyFilter(value)

\* both scripts run once when the page has loaded; each returns at once when
\* #repo-search is no input element
Startup ==
  /\ pc = "load"
  /\ pc' = "ready"
  /\ lastEvent' = Event("startup", 0, TRUE)
  /\ UNCHANGED <<cards, layout, value>>
  /\ IF layout.hasInput
     THEN \E a \in {applyLanguageAvailability(ariaPressed, buttonHidden)} :
             /\ ariaPressed' = a.pressed
             /\ buttonHidden' = a.hidden
             /\ RunApplyFilter(value, a.pressed)
             /\ RunSimpleApplyFilter(value)
     ELSE UNCHANGED <<ariaPressed, buttonHidden, cardHidden, sectionHidden,
                      emptyStateHidden, totalCountText, sectionCountText,
                      simpleCardHidden, simpleSectionHidden,
                      simpleEmptyStateHidden>>

\* an input listener that also clears the language selection
InputResetsFilters(v) ==
  /\ pc = "ready"
  /\ layout.hasInput
  /\ value' = v
  /\ lastEvent' = Event("input", 0, v = value)
  /\ ariaPressed' = [b \in ButtonIds |-> b \in allButtons]
  /\ RunApplyFilter(v, ariaPressed')
  /\ RunSimpleApplyFilter(v)
  /\ UNCHANGED <<cards, layout, pc, buttonHidden>>

\* the "input" listeners: the box now holds v
Input(v) ==
  /\ pc = "ready"
  /\ layout.hasInput
  /\ value' = v
  /\ lastEvent' = Event("input", 0, v = value)
  /\ RunApplyFilter(v, ariaPressed)
  /\ RunSimpleApplyFilter(v)
  /\ UNCHANGED <<cards, layout, pc, ariaPressed, buttonHidden>>

\* clickPressed whose specific branch presses the button and never
\* unpresses it
clickPressedNeverUnpresses(pressed, button) ==
  IF OrElse(filterLanguage[button], <<>>) = <<>>
  THEN [f \in ButtonIds |->
          IF f \in languageFilters
          THEN OrElse(filterLanguage[f], <<>>) = <<>>
          ELSE pressed[f]]
  ELSE LET flipped == setButtonPressed(pressed, button, TRUE)
       IN IF allButtons # {}
          THEN setButtonPressed(flipped, allButton, FALSE)
          ELSE flipped

\* clickPressed whose "all" branch presses "all" and leaves the rest alone
clickPressedAllOnly(pressed, button) ==
  IF OrElse(filterLanguage[button], <<>>) = <<>>
  THEN setButtonPressed(pressed, button, TRUE)
  ELSE LET flipped == setButtonPressed(pressed, button, ~pressed[button])
           cleared == IF allButtons # {}
                      THEN setButtonPressed(flipped, allButton, FALSE)
                      ELSE flipped
       IN IF selectedLanguages(cleared) = {} /\ allButtons # {}
          THEN setButtonPressed(cleared, allButton, TRUE)
          ELSE cleared

\* clickPressed that treats the specific buttons as radio buttons
clickPressedRadio(pressed, button) ==
  IF OrElse(filterLanguage[button], <<>>) = <<>>
  THEN [f \in ButtonIds |->
          IF f \in languageFilters
          THEN OrElse(filterLanguage[f], <<>>) = <<>>
          ELSE pressed[f]]
  ELSE LET flipped == [f \in ButtonIds |->
                         IF f = button THEN ~pressed[f]
                         ELSE IF f \in languageFilters THEN FALSE
                         ELSE pressed[f]]
       IN IF selectedLanguages(flipped) = {} /\ allButtons # {}
          THEN setButtonPressed(flipped, allButton, TRUE)
          ELSE flipped

\* clickPressed without the unconditional unpressing of "all"
clickPressedKeepsAll(pressed, button) ==
  IF OrElse(filterLanguage[button], <<>>) = <<>>
  THEN [f \in ButtonIds |->
          IF f \in languageFilters
          THEN OrElse(filterLanguage[f], <<>>) = <<>>
          ELSE pressed[f]]
  ELSE LET flipped == setButtonPressed(pressed, button, ~pressed[button])
       IN IF selectedLanguages(flipped) = {} /\ allButtons # {}
          THEN setButtonPressed(flipped, allButton, TRUE)
          ELSE flipped

\* the pressed flags the click listener of `button` leaves
clickPressed(pressed, button) ==
  IF OrElse(filterLanguage[button], <<>>) = <<>>
  THEN [f \in ButtonIds |->
          IF f \in languageFilters
          THEN OrElse(filterLanguage[f], <<>>) = <<>>
          ELSE pressed[f]]
  ELSE LET flipped == setButtonPressed(pressed, button, ~pressed[button])
           cleared == IF allButtons # {}
                      THEN setButtonPressed(flipped, allButton, FALSE)
                      ELSE flipped
           hasAnySpecificFilter == selectedLanguages(cleared) # {}
       IN IF ~hasAnySpecificFilter /\ allButtons # {}
          THEN setButtonPressed(cleared, allButton, TRUE)
          ELSE cleared

\* a click listener that filters with the flags from before the click
ClickStale(button) ==
  /\ pc = "ready"
  /\ layout.hasInput
  /\ button \in languageFilters
  /\ ariaPressed' = clickPressed(ariaPressed, button)
  /\ lastEvent' = Event("click", button, TRUE)
  /\ RunApplyFilter(value, ariaPressed)
  /\ UNCHANGED <<cards, layout, pc, value, buttonHidden, simpleCardHidden,
                 simpleSectionHidden, simpleEmptyStateHidden>>

\* the "click" listener of a filter button
Click(button) ==
  /\ pc = "ready"
  /\ layout.hasInput
  /\ button \in languageFilters
  /\ ariaPressed' = clickPressed(ariaPressed, button)
  /\ lastEvent' = Event("click", button, TRUE)
  /\ RunApplyFilter(value, ariaPressed')
  /\ UNCHANGED <<cards, layout, pc, value, buttonHidden, simpleCardHidden,
                 simpleSectionHidden, simpleEmptyStateHidden>>

\* a click on a button no listener was attached to
UnhandledClick(button) ==
  /\ pc = "ready"
  /\ ~layout.hasInput
  /\ button \in languageFilters
  /\ lastEvent' = Event("click", button, TRUE)
  /\ UNCHANGED <<cards, layout, pc, value, ariaPressed, buttonHidden,
                 cardHidden, sectionHidden, emptyStateHidden, totalCountText,
                 sectionCountText, simpleCardHidden, simpleSectionHidden,
                 simpleEmptyStateHidden>>

\* an "input" event on a page where no listener was attached: there is no
\* input element whose value the scripts would read
UnhandledInput ==
  /\ pc = "ready"
  /\ ~layout.hasInput
  /\ lastEvent' = Event("input", 0, TRUE)
  /\ UNCHANGED <<cards, layout, pc, value, ariaPressed, buttonHidden,
                 cardHidden, sectionHidden, emptyStateHidden, totalCountText,
                 sectionCountText, simpleCardHidden, simpleSectionHidden,
                 simpleEmptyStateHidden>>

Next ==
  \/ Startup
  \/ \E v \in Values : Input(v)
  \/ \E b \in ButtonIds : Click(b)
  \/ \E b \in ButtonIds : UnhandledClick(b)
  \/ UnhandledInput

Spec == Init /\ [][Next]_vars

(***************************************************************************)
(* The availability pass on its own: applyLanguageAvailability run on the  *)
(* page as loaded and then run once more, with nothing in between.  Here   *)
(* pc counts the runs: "load", "once", "twice".                            *)
(***************************************************************************)
AvailabilityPass ==
  /\ pc \in {"load", "once"}
  /\ layout.hasInput
  /\ pc' = IF pc = "load" THEN "once" ELSE "twice"
  /\ \E a \in {applyLanguageAvailability(ariaPressed, buttonHidden)} :
        /\ ariaPressed' = a.pressed
        /\ buttonHidden' = a.hidden
  /\ UNCHANGED <<cards, layout, value, cardHidden, sectionHidden,
                 emptyStateHidden, totalCountText, sectionCountText,
                 simpleCardHidden, simpleSectionHidden,
                 simpleEmptyStateHidden, lastEvent>>

NextAvailability == AvailabilityPass

SpecAvailability == Init /\ [][NextAvailability]_vars

(***************************************************************************)
(* Double clicks: the controller as in Spec, and in addition two clicks on *)
(* the same specific button with no event in between.  The first click     *)
(* keeps, in the event record, the flags the page showed before it; pc is  *)
(* "between" until the second click has been handled.                      *)
(***************************************************************************)
FirstClick(button) ==
  /\ pc = "ready"
  /\ layout.hasInput
  /\ button \in languageFilters
  /\ filterLanguage[button] # <<>>
  /\ pc' = "between"
  /\ ariaPressed' = clickPressed(ariaPressed, button)
  /\ lastEvent' = [kind |-> "click", button |-> button, again |-> FALSE,
                   before |-> [ariaPressed |-> ariaPressed,
                               cardHidden |-> cardHidden,
                               sectionHidden |-> sectionHidden]]
  /\ RunApplyFilter(value, ariaPressed')
  /\ UNCHANGED <<cards, layout, value, buttonHidden, simpleCardHidden,
                 simpleSectionHidden, simpleEmptyStateHidden>>

SecondClick ==
  /\ pc = "between"
  /\ pc' = "ready"
  /\ ariaPressed' = clickPressed(ariaPressed, lastEvent.button)
  /\ lastEvent' = [lastEvent EXCEPT !.again = TRUE]
  /\ RunApplyFilter(value, ariaPressed')
  /\ UNCHANGED <<cards, layout, value, buttonHidden, simpleCardHidden,
                 simpleSectionHidden, simpleEmptyStateHidden>>

NextDoubleClick ==
  \/ Startup
  \/ \E v \in Values : Input(v)
  \/ \E b \in ButtonIds : Click(b)
  \/ \E b \in ButtonIds : FirstClick(b)
  \/ SecondClick

SpecDoubleClick == Init /\ [][NextDoubleClick]_vars

(***************************************************************************)
(* Vocabulary of the properties.                                           *)
(***************************************************************************)
\* the extended controller has run and its listeners are attached
Ready == pc = "ready" /\ layout.hasInput

\* the page has an "all" button and it is pressed
allPressed == allButtons # {} /\ ariaPressed[allButton]

\* the specific (non-"all") buttons that are pressed
pressedSpecific ==
  {b \in languageFilters : filterLanguage[b] # <<>> /\ ariaPressed[b]}

\* exactly one of: "all" pressed with no specific button pressed, or
\* "all" unpressed with at least one specific button pressed
MutuallyExclusive ==
  (allPressed /\ pressedSpecific = {}) # (~allPressed /\ pressedSpecific # {})

\* the last event was a click handled by the listener of a specific button
AfterSpecificClick ==
  /\ Ready
  /\ lastEvent.kind = "click"
  /\ filterLanguage[lastEvent.button] # <<>>

\* the last event was a click handled by the listener of the "all" button
AfterAllClick ==
  /\ Ready
  /\ lastEvent.kind = "click"
  /\ filterLanguage[lastEvent.button] = <<>>

\* C1: on a page with an "all" button, right after every handled click
\* exactly one of {"all" pressed, no specific pressed} and {"all" unpressed,
\* some specific pressed} holds, whatever flags the page started with.
C1_ExclusiveAfterClick ==
  (Ready /\ lastEvent.kind = "click" /\ allButtons # {}) => MutuallyExclusive

\* C1 witness: a click has left two specific buttons pressed and "all" not
C1_Witness ==
  /\ AfterSpecificClick
  /\ allButtons # {}
  /\ ~ariaPressed[allButton]
  /\ Cardinality(pressedSpecific) >= 2

\* C2 as claimed: once startup has run, the pressed flags are mutually
\* exclusive, for every initial assignment the page supplies.
C2_ExclusiveFromStartup ==
  (Ready /\ allButtons # {}) => MutuallyExclusive

\* the query and selection the page shows now
queryNow == trimmedLowercased(value)

filteringNow == queryNow # <<>> \/ pressedSpecific # {}

shownCards == {c \in CardIds : ~cardHidden[c]}

\* C3: after startup and after every handled event each card is visible
\* exactly when the query match and the language match both hold for the
\* query now in the box and the buttons now pressed.
C3_VisibilityIsCurrent ==
  Ready =>
    \A c \in CardIds :
       cardHidden[c] =
         ~isVisible(cards[c], query(value), selectedLanguages(ariaPressed))

\* C3 witness: after a click, with a query and a language both selected, one
\* card is shown and another is hidden
C3_Witness ==
  /\ AfterSpecificClick
  /\ queryNow # <<>>
  /\ pressedSpecific # {}
  /\ \E c, d \in CardIds : ~cardHidden[c] /\ cardHidden[d]

\* C4 as claimed: after startup, whatever is clicked, a button whose
\* language no card has is hidden, unpressed and not in the selected set.
C4_UnavailableNeverSelected ==
  Ready =>
    \A b \in languageFilters :
       (filterLanguage[b] # <<>> /\ ~isAvailable(b)) =>
          /\ buttonHidden[b]
          /\ ~ariaPressed[b]
          /\ filterLanguage[b] \notin selectedLanguages(ariaPressed)

\* C5: right after a click on "all", "all" is pressed, no specific button is
\* pressed, the selected set is empty and the cards are filtered by the
\* query alone.
C5_AllClickClears ==
  AfterAllClick =>
    /\ allPressed
    /\ pressedSpecific = {}
    /\ selectedLanguages(ariaPressed) = {}
    /\ \A c \in CardIds :
          cardHidden[c] =
            ~(queryNow = <<>> \/ includes(searchableText(cards[c]), queryNow))

\* C5 witness: "all" was clicked and a card without a language is shown
C5_Witness ==
  /\ AfterAllClick
  /\ allPressed
  /\ \E c \in CardIds : ~cardHidden[c] /\ cards[c].repoLanguage = <<>>

\* C6: a handled click on a specific button B flips B's pressed flag and
\* leaves every other specific button's flag as it was; on a page with an
\* "all" button, "all" is then pressed exactly when no language is selected.
C6_SpecificClickFlipsOne ==
  [][ (Ready /\ lastEvent'.kind = "click"
         /\ filterLanguage[lastEvent'.button] # <<>>) =>
        /\ ariaPressed'[lastEvent'.button] = ~ariaPressed[lastEvent'.button]
        /\ \A o \in languageFilters \ {lastEvent'.button} :
              filterLanguage[o] # <<>> => ariaPressed'[o] = ariaPressed[o]
        /\ allButtons # {} =>
              (ariaPressed'[allButton] <=> selectedLanguages(ariaPressed') = {})
    ]_vars

\* C6 witness: the only pressed specific button was clicked, "all" is pressed
C6_Witness ==
  /\ AfterSpecificClick
  /\ allPressed
  /\ pressedSpecific = {}

\* C7: after every filter pass a section is shown when nothing is filtered,
\* and otherwise exactly when one of its cards is shown.
C7_SectionVisibility ==
  Ready =>
    \A s \in sections :
       sectionHidden[s] =
         (filteringNow /\ \A c \in CardIds : cards[c].section = s => cardHidden[c])

\* C7 witness: while filtering, one section with cards is hidden and
\* another is shown
C7_Witness ==
  /\ Ready
  /\ filteringNow
  /\ \E s, t \in sections :
        /\ sectionHidden[s]
        /\ \E c \in CardIds : cards[c].section = s
        /\ ~sectionHidden[t]

\* C8: after every filter pass the empty-state indicator is shown exactly
\* when a filter is active and no card is shown; when it is shown every
\* section is hidden.
C8_EmptyState ==
  (Ready /\ layout.hasEmptyState) =>
    /\ ~emptyStateHidden <=> (filteringNow /\ shownCards = {})
    /\ ~emptyStateHidden => \A s \in sections : sectionHidden[s]

\* C8 witness: the indicator is shown on a page that has cards
C8_Witness ==
  /\ Ready
  /\ layout.hasEmptyState
  /\ ~emptyStateHidden
  /\ Len(cards) > 0

\* C9: after every filter pass the summary reads visible/total, total being
\* the number of cards of the page and visible the number of cards shown;
\* visible never exceeds total and equals it when nothing is filtered.
C9_TotalCountLabel ==
  (Ready /\ layout.hasCountLabels) =>
    /\ totalCountText = <<Cardinality(shownCards), Len(cards)>>
    /\ totalCountText[1] <= totalCountText[2]
    /\ ~filteringNow => totalCountText[1] = totalCountText[2]

\* C9 witness: one of two cards is shown
C9_Witness ==
  /\ Ready
  /\ layout.hasCountLabels
  /\ Len(cards) >= 2
  /\ totalCountText[1] = 1
  /\ totalCountText[2] = Len(cards)

\* C10: in the simple search a card is shown exactly when the trimmed query
\* is empty or, lowercased, is a substring of the lowercased
\* name + " " + language + " " + description.
C10_SimpleSearch ==
  Ready =>
    \A c \in CardIds :
       simpleCardHidden[c] =
         ~(\/ trim(value) = <<>>
           \/ includes(toLowerCase(cards[c].repoName \o <<" ">>
                                   \o cards[c].repoLanguage \o <<" ">>
                                   \o cards[c].repoDescription),
                       toLowerCase(trim(value))))

\* C10 witness: the query matches one card by its language alone and
\* another card not at all
C10_Witness ==
  /\ Ready
  /\ queryNow = <<"g">>
  /\ \E c, d \in CardIds :
        /\ ~simpleCardHidden[c]
        /\ cards[c].repoName = <<"a">>
        /\ simpleCardHidden[d]

\* C11: on a page without the text input element no hidden flag, pressed
\* flag or summary text is ever written, by startup or by any later input
\* or click event, in either controller.
C11_NoInputNoWork ==
  [][ ~layout.hasInput =>
        UNCHANGED <<cardHidden, sectionHidden, ariaPressed, buttonHidden,
                    emptyStateHidden, totalCountText, sectionCountText,
                    simpleCardHidden, simpleSectionHidden,
                    simpleEmptyStateHidden>> ]_vars

\* C11 witness: without the input element, after startup and a click, the
\* cards are still hidden as the page had them and the summary is untouched
C11_Witness ==
  /\ ~layout.hasInput
  /\ pc = "ready"
  /\ lastEvent.kind = "click"
  /\ Len(cards) > 0
  /\ \A c \in CardIds : cardHidden[c]
  /\ \E b \in languageFilters : filterLanguage[b] # <<>> /\ ariaPressed[b]
  /\ ~allPressed
  /\ totalCountText = PageText

\* C12: a filter pass that runs again on the same query and the same
\* pressed flags (an input event that brings the value the box already
\* holds) leaves every card, section and empty-state flag and every summary
\* text as the pass before it left them.
C12_FilterPassIdempotent ==
  [][ (Ready /\ lastEvent'.kind = "input" /\ value' = value) =>
        UNCHANGED <<cardHidden, sectionHidden, emptyStateHidden,
                    totalCountText, sectionCountText>> ]_vars

\* C12 witness: the pass has just run a second time on the same inputs,
\* with a query and a language selected, one card shown and one hidden
C12_Witness ==
  /\ Ready
  /\ lastEvent.again
  /\ queryNow # <<>>
  /\ pressedSpecific # {}
  /\ \E c, d \in CardIds : ~cardHidden[c] /\ cardHidden[d]

\* C13: a second run of the availability pass changes no button's hidden
\* flag and no button's pressed flag, and after any run the "all" button is
\* not hidden, for every card set and every initial button state.
C13_AvailabilityIdempotent ==
  [][ /\ pc = "once" =>
           (ariaPressed' = ariaPressed /\ buttonHidden' = buttonHidden)
      /\ allButtons # {} => ~buttonHidden'[allButton] ]_vars

\* C13 witness: after the second run "all" is shown, a button without cards
\* is hidden and unpressed, and a specific button is still pressed
C13_Witness ==
  /\ pc = "twice"
  /\ allButtons # {}
  /\ ~buttonHidden[allButton]
  /\ \E b \in languageFilters : buttonHidden[b] /\ ~ariaPressed[b]
  /\ pressedSpecific # {}

\* C14: on the same cards, sections and text-input events, whenever no
\* specific button is pressed (or the page has no buttons) the extended
\* controller leaves every card, every section and the empty-state
\* indicator as the simple controller does.
C14_ExtendedSubsumesSimple ==
  (Ready /\ pressedSpecific = {}) =>
    /\ cardHidden = simpleCardHidden
    /\ sectionHidden = simpleSectionHidden
    /\ layout.hasEmptyState => emptyStateHidden = simpleEmptyStateHidden

\* C14 witness: after an input event with no language selected, both
\* controllers show one card and hide another
C14_Witness ==
  /\ Ready
  /\ lastEvent.kind = "input"
  /\ pressedSpecific = {}
  /\ queryNow # <<>>
  /\ \E c, d \in CardIds :
        /\ ~cardHidden[c] /\ ~simpleCardHidden[c]
        /\ cardHidden[d] /\ simpleCardHidden[d]

\* the buttons whose data-language is "unknown"
unknownButtons == {b \in languageFilters : filterLanguage[b] = Unknown}

\* the card has no category, or the category "unknown" in any letter case
hasNoOrUnknownLanguage(card) ==
  card.repoLanguage = <<>> \/ toLowerCase(card.repoLanguage) = Unknown

\* C15: the "unknown" button is shown exactly when some card has no
\* category or the category "unknown"; with only "unknown" pressed and an
\* empty query exactly those cards are shown.
C15_UnknownLanguage ==
  Ready =>
    \A b \in unknownButtons :
       /\ ~buttonHidden[b] <=>
             \E c \in CardIds : hasNoOrUnknownLanguage(cards[c])
       /\ (pressedSpecific = {b} /\ queryNow = <<>>) =>
             \A c \in CardIds :
                ~cardHidden[c] <=> hasNoOrUnknownLanguage(cards[c])

\* C15 witness: only "unknown" is pressed, the query is empty, a card
\* without a category is shown and a card with one is hidden
C15_Witness ==
  /\ Ready
  /\ queryNow = <<>>
  /\ \E b \in unknownButtons : pressedSpecific = {b} /\ ~buttonHidden[b]
  /\ \E c, d \in CardIds :
        /\ ~cardHidden[c] /\ cards[c].repoLanguage = <<>>
        /\ cardHidden[d] /\ cards[d].repoLanguage = <<"G">>

\* C16 as claimed: whenever the query is empty and every pressed specific
\* button is one the availability pass left shown, at least one card is
\* shown and the empty-state indicator is hidden, however the button's
\* data-language is spelled.
C16_AvailableSelectionShowsCards ==
  (/\ Ready
   /\ queryNow = <<>>
   /\ pressedSpecific # {}
   /\ \A b \in pressedSpecific : ~buttonHidden[b]) =>
    /\ shownCards # {}
    /\ layout.hasEmptyState => emptyStateHidden

\* C17: a text-input event changes no button's pressed or hidden flag; a
\* click changes no button's hidden flag and not the value of the box; once
\* startup has run no button's hidden flag changes again.
C17_EventsTouchDisjointInputs ==
  [][ /\ lastEvent'.kind = "input" =>
           (ariaPressed' = ariaPressed /\ buttonHidden' = buttonHidden)
      /\ lastEvent'.kind = "click" =>
           (buttonHidden' = buttonHidden /\ value' = value)
      /\ pc = "ready" => buttonHidden' = buttonHidden ]_vars

\* C17 witness: after an input event with a query, a specific button is
\* still pressed and a button without cards is still hidden
C17_Witness ==
  /\ Ready
  /\ lastEvent.kind = "input"
  /\ queryNow # <<>>
  /\ pressedSpecific # {}
  /\ \E b \in languageFilters : buttonHidden[b]

\* the pressed flags p are mutually exclusive (as MutuallyExclusive)
MutuallyExclusiveIn(p) ==
  LET all == allButtons # {} /\ p[allButton]
      specific == {b \in languageFilters : filterLanguage[b] # <<>> /\ p[b]}
  IN (all /\ specific = {}) # (~all /\ specific # {})

\* the second of two clicks on the same specific button has been handled
AfterDoubleClick ==
  /\ pc = "ready"
  /\ lastEvent.kind = "click"
  /\ lastEvent.again

\* C18: two clicks in a row on the same specific button, from a state whose
\* pressed flags are mutually exclusive, restore the pressed flag of every
\* button and the hidden flag of every card and section.
C18_DoubleClickRestores ==
  (AfterDoubleClick /\ MutuallyExclusiveIn(lastEvent.before.ariaPressed)) =>
    /\ ariaPressed = lastEvent.before.ariaPressed
    /\ cardHidden = lastEvent.before.cardHidden
    /\ sectionHidden = lastEvent.before.sectionHidden

\* C18 witness: the only pressed specific button was clicked twice, with a
\* query in the box; it is pressed again, "all" is not, and a card is hidden
C18_Witness ==
  /\ AfterDoubleClick
  /\ MutuallyExclusiveIn(lastEvent.before.ariaPressed)
  /\ allButtons # {}
  /\ pressedSpecific = {lastEvent.button}
  /\ ~allPressed
  /\ queryNow # <<>>
  /\ \E c \in CardIds : cardHidden[c]

=============================================================================
